---- MODULE Spec2Model ----
(***************************************************************************)
(* A model of rdml.py: the Rdml document object, its experimenter group    *)
(* and the helper functions that look up, create, place and delete         *)
(* experimenter elements.                                                  *)
(*                                                                         *)
(* An element is a record [tag, id, text, sub]: its tag without the        *)
(* namespace, its 'id' attribute, its text and its sub-elements.  The      *)
(* document root is a record [tag, version, children].  A Python None is   *)
(* the value None; an absent int argument is NoPos, a given one <<p>>.     *)
(* A call that raises leaves the exception in exc: [cls, at], the class    *)
(* of the exception and the statement that raised it.  The source does not *)
(* fix the interpreter (#!/usr/bin/python): python is Python 2 or Python 3  *)
(* for the whole run.                                                      *)
(***************************************************************************)
EXTENDS Integers, Sequences, FiniteSets, TLC

VARIABLES
    python,        \* the interpreter that runs rdml.py: "py2" or "py3"
    node,          \* Rdml._node (the root of Rdml._rdmlData)
    rdmlVersion,   \* Rdml._rdmlVersion
    call,          \* the last method call and its arguments
    exc,           \* the exception the last call raised, or NoExc
    prevNode,      \* _node before the last call
    prevVersion    \* _rdmlVersion before the last call

vars == <<python, node, rdmlVersion, call, exc, prevNode, prevVersion>>

----------------------------------------------------------------------------
(* Bounds of the model *)

\* longest child list new_experimenter is still tried on
MaxChildren == 4
\* largest requested position tried (the smallest is -1)
MaxPos == 3

----------------------------------------------------------------------------
(* Values *)

None == "<None>"
NoPos == <<>>

NoExc == [cls |-> "none", at |-> "none"]
RdmlError(at) == [cls |-> "RdmlError", at |-> at]
TypeError(at) == [cls |-> "TypeError", at |-> at]
NameError(at) == [cls |-> "NameError", at |-> at]

Ok(v) == [exc |-> NoExc, val |-> v]
Raise(e) == [exc |-> e, val |-> None]

\* ET.SubElement(base, tag).text = text : a leaf appended to base's sub-elements
Leaf(tag, text) == [tag |-> tag, id |-> None, text |-> text, sub |-> <<>>]
SubElement(base, tag, text) == [base EXCEPT !.sub = Append(@, Leaf(tag, text))]

\* ET.Element(tag, id=id) : a detached element
Element(tag, id) == [tag |-> tag, id |-> id, text |-> None, sub |-> <<>>]

----------------------------------------------------------------------------
(* The helper functions; base is a sequence of elements *)

RECURSIVE FirstIndex(_, _, _)
\* index of the first element of base from position i on with the tag, 0 if none
FirstIndex(base, tag, i) ==
    IF i > Len(base) THEN 0
    ELSE IF base[i].tag = tag THEN i
    ELSE FirstIndex(base, tag, i + 1)

get_first_child_text(base, tag) ==
    LET i == FirstIndex(base, tag, 1)
    IN  IF i = 0 THEN "" ELSE base[i].text

RECURSIVE IndicesFrom(_, _, _)
IndicesFrom(base, tag, i) ==
    IF i > Len(base) THEN <<>>
    ELSE IF base[i].tag = tag THEN <<i>> \o IndicesFrom(base, tag, i + 1)
    ELSE IndicesFrom(base, tag, i + 1)

\* the children with the tag in document order; a node reference is the
\* node's index in base
get_all_children(base, tag) == IndicesFrom(base, tag, 1)

get_number_of_children(base, tag) ==
    Cardinality({i \in 1..Len(base) : base[i].tag = tag})

\* check_unique_id answering after the first child of the group
check_unique_id_FirstOnly(base, tag, id) ==
    LET i == FirstIndex(base, tag, 1)
    IN  i = 0 \/ base[i].id # id

check_unique_id(base, tag, id) ==
    ~ \E i \in 1..Len(base) : base[i].tag = tag /\ base[i].id = id

\* create_new_element testing the id against None only
create_new_element_NoneOnly(base, tag, id) ==
    IF id = None THEN Raise(RdmlError("id must be provided"))
    ELSE IF ~ check_unique_id(base, tag, id) THEN Raise(RdmlError("id must be unique"))
    ELSE Ok(Element(tag, id))

create_new_element(base, tag, id) ==
    IF id = None \/ id = "" THEN Raise(RdmlError("id must be provided"))
    ELSE IF ~ check_unique_id(base, tag, id) THEN Raise(RdmlError("id must be unique"))
    ELSE Ok(Element(tag, id))

\* add_new_subelement without the check of a required text
add_new_subelement_NoRequiredCheck(base, basetag, tag, text, opt) ==
    IF text # None /\ text # ""
    THEN Ok(SubElement(base, tag, text))
    ELSE Ok(base)

\* returns the new base element; Raise when a required text is missing
add_new_subelement(base, basetag, tag, text, opt) ==
    IF opt = FALSE
    THEN IF text = None \/ text = ""
         THEN Raise(RdmlError("field must be provided"))
         ELSE Ok(SubElement(base, tag, text))
    ELSE IF text # None /\ text # ""
         THEN Ok(SubElement(base, tag, text))
         ELSE Ok(base)

get_first_tag_pos(base, tag) ==
    LET counter == Len(base)
        experimenter == FirstIndex(base, "experimenter", 1) - 1
    IN  IF tag = "experimenter" THEN experimenter ELSE counter - 1

\* 'pos > count' with pos None: Python 2 orders None below every int,
\* Python 3 raises TypeError
get_tag_pos(base, tag, pos, py) ==
    LET count == get_number_of_children(base, tag)
    IN  IF pos = NoPos
        THEN IF py = "py3" THEN Raise(TypeError("None > count"))
             ELSE Ok(get_first_tag_pos(base, tag) + 0)
        ELSE LET offset == IF pos[1] > count THEN count ELSE 0
             IN  Ok(get_first_tag_pos(base, tag) + offset)

\* lxml _Element.__getitem__(x) takes an int or a slice; a string raises TypeError
Element_getitem(n, key) == Raise(TypeError("node[str]"))

RECURSIVE FindById(_, _, _, _)
\* the loop of lines 79-82 over exp from its k-th entry on; the raise after
\* the loop names 'byid', which is not defined
FindById(base, exp, by_id, k) ==
    IF k > Len(exp) THEN Raise(NameError("byid"))
    ELSE LET r == Element_getitem(base[exp[k]], "id")
         IN  IF r.exc # NoExc THEN r
             ELSE IF r.val = by_id THEN Ok(exp[k])
             ELSE FindById(base, exp, by_id, k + 1)

\* get_first_child_by_pos_or_id without the check of lines 75-76
get_first_child_by_pos_or_id_NoBothCheck(base, tag, by_id, by_pos) ==
    IF by_id = None /\ by_pos = NoPos
    THEN Raise(RdmlError("either id or position"))
    ELSE LET exp == get_all_children(base, tag)
         IN  IF by_id # None
             THEN FindById(base, exp, by_id, 1)
             ELSE IF by_pos[1] < 0 \/ by_pos[1] > Len(exp) - 1
                  THEN Raise(TypeError("str + int"))
                  ELSE Ok(exp[by_pos[1] + 1])

\* returns the index in base of the child found
get_first_child_by_pos_or_id(base, tag, by_id, by_pos) ==
    IF by_id = None /\ by_pos = NoPos
    THEN Raise(RdmlError("either id or position"))
    ELSE IF by_id # None /\ by_pos # NoPos
    THEN Raise(RdmlError("only id or position"))
    ELSE LET exp == get_all_children(base, tag)
         IN  IF by_id # None
             THEN FindById(base, exp, by_id, 1)
             ELSE IF by_pos[1] < 0 \/ by_pos[1] > Len(exp) - 1
                  THEN Raise(TypeError("str + int"))
                  ELSE Ok(exp[by_pos[1] + 1])

\* dic[tag] = text
SetItem(dic, key, v) == [k \in DOMAIN dic \cup {key} |-> IF k = key THEN v ELSE dic[k]]

add_first_child_to_dic(base, dic, opt, tag) ==
    LET i == FirstIndex(base, tag, 1)
    IN  IF i # 0 THEN SetItem(dic, tag, base[i].text)
        ELSE IF ~ opt THEN SetItem(dic, tag, "")
        ELSE dic

----------------------------------------------------------------------------
(* lxml's list operations on the children of an element *)

\* _Element.insert(index, element): before the child at index (a negative
\* index counts from the end); appended when there is no such child
insert(children, index, element) ==
    LET n == Len(children)
        k == IF index < 0 THEN n + index + 1 ELSE index + 1
    IN  IF k < 1 \/ k > n THEN Append(children, element)
        ELSE SubSeq(children, 1, k - 1) \o <<element>> \o SubSeq(children, k, n)

\* _Element.remove(element), the element being the child at index i
remove(children, i) ==
    SubSeq(children, 1, i - 1) \o SubSeq(children, i + 1, Len(children))

----------------------------------------------------------------------------
(* class Experimenter *)

Experimenter_tojson(n) ==
    LET data == [k \in {"id", "firstName", "lastName"} |->
                    IF k = "id" THEN n.id ELSE get_first_child_text(n.sub, k)]
        d1 == add_first_child_to_dic(n.sub, data, TRUE, "email")
        d2 == add_first_child_to_dic(n.sub, d1, TRUE, "labName")
    IN  add_first_child_to_dic(n.sub, d2, TRUE, "labAddress")

----------------------------------------------------------------------------
(* class Rdml: the reading methods *)

SupportedVersions == {"1.0", "1.1", "1.2"}

version == rdmlVersion

\* the experimenter elements of a child list, in document order
experimentersOf(children) ==
    LET exp == get_all_children(children, "experimenter")
    IN  [k \in 1..Len(exp) |-> children[exp[k]]]

experimenters == experimentersOf(node.children)

tojson ==
    [version |-> version,
     dateMade |-> get_first_child_text(node.children, "dateMade"),
     dateUpdated |-> get_first_child_text(node.children, "dateUpdated"),
     experimenters |-> [k \in 1..Len(experimenters) |-> Experimenter_tojson(experimenters[k])]]

----------------------------------------------------------------------------
(* Inputs *)

\* the text of dateMade that new() writes (the current time)
Now == "2018-01-01T00:00:00"

\* the ids the methods are called with
Ids == {"a", "b"}

Interpreters == {"py2", "py3"}

DateMade == [tag |-> "dateMade", id |-> None, text |-> Now, sub |-> <<>>]
\* an element of a group that follows the experimenters in an RDML file
Dye == [tag |-> "dye", id |-> "a", text |-> None, sub |-> <<>>]

\* an experimenter element as a file holds it
Exp(id, optional) ==
    [tag |-> "experimenter", id |-> id, text |-> None,
     sub |-> <<Leaf("firstName", "Ada"), Leaf("lastName", "Lovelace")>>
             \o (IF optional THEN <<Leaf("email", "ada@x.org"), Leaf("labName", "Lab")>>
                 ELSE <<>>)]

\* the field arguments new_experimenter is called with
FieldInputs ==
    { [firstName |-> "Ada", lastName |-> "Lovelace", email |-> None,
       labName |-> None, labAddress |-> None],
      [firstName |-> "Ada", lastName |-> "Lovelace", email |-> "ada@x.org",
       labName |-> "Lab", labAddress |-> ""],
      [firstName |-> None, lastName |-> "Lovelace", email |-> None,
       labName |-> None, labAddress |-> None],
      [firstName |-> "Ada", lastName |-> "", email |-> None,
       labName |-> None, labAddress |-> None] }

IdInputs == Ids \cup {None, ""}
PosInputs == {NoPos} \cup {<<p>> : p \in -1..MaxPos}

\* the child lists of the files loaded: experimenters with distinct ids,
\* as one span or with other elements between them
LoadChildren ==
    { <<>>,
      <<DateMade, Exp("a", TRUE), Exp("c", FALSE)>>,
      <<DateMade, Exp("b", FALSE), Dye>>,
      <<Exp("c", FALSE), DateMade, Exp("a", FALSE)>> }

\* what the parser makes of the text given to loadXMLString
Unparsable == [wellformed |-> FALSE, tag |-> None, version |-> None, children |-> <<>>]
Parsed(tag, ver, children) ==
    [wellformed |-> TRUE, tag |-> tag, version |-> ver, children |-> children]
LoadInputs ==
    {Unparsable}
    \cup {Parsed("rdml", "1.2", c) : c \in LoadChildren}
    \cup {Parsed("rdml", v, <<DateMade>>) : v \in {"1.1", "2.0", None}}
    \cup {Parsed("html", "1.2", <<DateMade, Exp("a", FALSE)>>)}

NoFields ==
    [firstName |-> None, lastName |-> None, email |-> None,
     labName |-> None, labAddress |-> None]
Call(op, id, f, pos, data) ==
    [op |-> op, id |-> id, fields |-> f, pos |-> pos, data |-> data]

----------------------------------------------------------------------------
(* class Rdml: the methods that change the object *)

NoTree == [tag |-> None, version |-> None, children |-> <<>>]

\* the state loadXMLString leaves: [node, rdmlVersion, exc]
loadXMLStringResult(data, oldNode, oldVersion) ==
    IF ~ data.wellformed
    THEN [node |-> oldNode, rdmlVersion |-> oldVersion, exc |-> RdmlError("XML load error")]
    ELSE LET tree == [tag |-> data.tag, version |-> data.version,
                      children |-> data.children]
         IN  IF tree.tag # "rdml"
             THEN [node |-> tree, rdmlVersion |-> oldVersion,
                   exc |-> RdmlError("root element is not rdml")]
             ELSE IF ~ (tree.version \in SupportedVersions)
             THEN [node |-> tree, rdmlVersion |-> tree.version,
                   exc |-> RdmlError("unsupported version")]
             ELSE [node |-> tree, rdmlVersion |-> tree.version, exc |-> NoExc]

\* the text new() builds, parsed
NewData == Parsed("rdml", "1.2", <<DateMade>>)

\* the state new_experimenter leaves: [children, exc]
new_experimenterResult(children, id, f, newposition, py) ==
    LET r0 == create_new_element(children, "experimenter", id)
        r1 == IF r0.exc # NoExc THEN r0
              ELSE add_new_subelement(r0.val, "experimenter", "firstName", f.firstName, FALSE)
        r2 == IF r1.exc # NoExc THEN r1
              ELSE add_new_subelement(r1.val, "experimenter", "lastName", f.lastName, FALSE)
        r3 == IF r2.exc # NoExc THEN r2
              ELSE add_new_subelement(r2.val, "experimenter", "email", f.email, TRUE)
        r4 == IF r3.exc # NoExc THEN r3
              ELSE add_new_subelement(r3.val, "experimenter", "labName", f.labName, TRUE)
        r5 == IF r4.exc # NoExc THEN r4
              ELSE add_new_subelement(r4.val, "experimenter", "labAddress", f.labAddress, TRUE)
        place == IF r5.exc # NoExc THEN r5
                 ELSE get_tag_pos(children, "experimenter", newposition, py)
    IN  IF place.exc # NoExc
        THEN [children |-> children, exc |-> place.exc]
        ELSE [children |-> insert(children, place.val, r5.val), exc |-> NoExc]

\* the state delete_experimenter leaves: [children, exc]
delete_experimenterResult(children, byid, byposition) ==
    LET elem == get_first_child_by_pos_or_id(children, "experimenter", byid, byposition)
    IN  IF elem.exc # NoExc
        THEN [children |-> children, exc |-> elem.exc]
        ELSE [children |-> remove(children, elem.val), exc |-> NoExc]

----------------------------------------------------------------------------
(* The state machine *)

\* Rdml(): __init__ without a file name, which calls new()
Init ==
    /\ python \in Interpreters
    /\ LET s == loadXMLStringResult(NewData, NoTree, "0.0")
       IN  /\ node = s.node
           /\ rdmlVersion = s.rdmlVersion
           /\ exc = s.exc
    /\ call = Call("Rdml", None, NoFields, NoPos, NewData)
    /\ prevNode = NoTree
    /\ prevVersion = "0.0"

Remember ==
    /\ prevNode' = node
    /\ prevVersion' = rdmlVersion
    /\ UNCHANGED python

new ==
    /\ LET s == loadXMLStringResult(NewData, node, rdmlVersion)
       IN  /\ node' = s.node
           /\ rdmlVersion' = s.rdmlVersion
           /\ exc' = s.exc
    /\ call' = Call("new", None, NoFields, NoPos, NewData)
    /\ Remember

loadXMLString ==
    \E data \in LoadInputs :
        /\ LET s == loadXMLStringResult(data, node, rdmlVersion)
           IN  /\ node' = s.node
               /\ rdmlVersion' = s.rdmlVersion
               /\ exc' = s.exc
        /\ call' = Call("loadXMLString", None, NoFields, NoPos, data)
        /\ Remember

new_experimenter ==
    \E id \in IdInputs, f \in FieldInputs, newposition \in PosInputs :
        /\ Len(node.children) < MaxChildren
        /\ LET s == new_experimenterResult(node.children, id, f, newposition, python)
           IN  /\ node' = [node EXCEPT !.children = s.children]
               /\ exc' = s.exc
        /\ call' = Call("new_experimenter", id, f, newposition, Unparsable)
        /\ Remember
        /\ UNCHANGED rdmlVersion

delete_experimenter ==
    \E byid \in Ids \cup {None}, byposition \in PosInputs :
        /\ LET s == delete_experimenterResult(node.children, byid, byposition)
           IN  /\ node' = [node EXCEPT !.children = s.children]
               /\ exc' = s.exc
        /\ call' = Call("delete_experimenter", byid, NoFields, byposition, Unparsable)
        /\ Remember
        /\ UNCHANGED rdmlVersion

Next == new \/ loadXMLString \/ new_experimenter \/ delete_experimenter

Spec == Init /\ [][Next]_vars

\* editing only: a new document and calls of new_experimenter and
\* delete_experimenter
NextEdit == new_experimenter \/ delete_experimenter

SpecEdit == Init /\ [][NextEdit]_vars

----------------------------------------------------------------------------
(* What the last call did, read from the state *)

IsNewExperimenter == call.op = "new_experimenter"
IsDeleteExperimenter == call.op = "delete_experimenter"
IsLoad == call.op = "loadXMLString"

Empty(text) == text = None \/ text = ""

\* the experimenters before the last call and after it, in document order
prevExp == experimentersOf(prevNode.children)
curExp == experimenters

HadId(id) == \E k \in 1..Len(prevExp) : prevExp[k].id = id
HasId(id) == \E k \in 1..Len(curExp) : curExp[k].id = id

RemoveAt(seq, k) == SubSeq(seq, 1, k - 1) \o SubSeq(seq, k + 1, Len(seq))

\* the record of the last new_experimenter is the k-th experimenter and the
\* experimenters that were there before follow their old order
NewAt(k) ==
    /\ Len(curExp) = Len(prevExp) + 1
    /\ k \in 1..Len(curExp)
    /\ curExp[k].id = call.id
    /\ RemoveAt(curExp, k) = prevExp

IdMissing == RdmlError("id must be provided")
DuplicateId == RdmlError("id must be unique")
MissingRequiredField == RdmlError("field must be provided")
AmbiguousSelector == {RdmlError("either id or position"), RdmlError("only id or position")}

----------------------------------------------------------------------------
(* C1 *)

\* C1: new_experimenter called with the id of an experimenter already in the
\* document, whatever the fields and the position, raises the RdmlError
\* 'id must be unique' and leaves the document as it was.
C1_DuplicateIdRejected ==
    (IsNewExperimenter /\ HadId(call.id))
        => (exc = DuplicateId /\ node = prevNode /\ curExp = prevExp)

\* a duplicate of the second of two experimenters, with a position given, was refused
C1_Witness ==
    /\ IsNewExperimenter
    /\ Len(prevExp) = 2
    /\ prevExp[2].id = call.id
    /\ call.pos = <<1>>
    /\ ~ Empty(call.fields.firstName)
    /\ exc = DuplicateId

----------------------------------------------------------------------------
(* C2 *)

\* C2 as stated: an empty or absent firstName or lastName always raises the
\* missing-required-field error, for every id, and the document is unchanged.
C2_Original ==
    (IsNewExperimenter /\ (Empty(call.fields.firstName) \/ Empty(call.fields.lastName)))
        => (exc = MissingRequiredField /\ node = prevNode)

\* C2 amended: with an empty or absent firstName or lastName new_experimenter
\* always fails with an RdmlError and leaves the child list as it was; the
\* error is the missing-required-field error when the id is non-empty and
\* not in use, the missing-id error when the id is empty or absent and the
\* duplicate-id error when an experimenter already carries the id.
C2_RequiredFieldEnforced ==
    (IsNewExperimenter /\ (Empty(call.fields.firstName) \/ Empty(call.fields.lastName)))
        => /\ node = prevNode
           /\ Len(curExp) = Len(prevExp)
           /\ exc = IF Empty(call.id) THEN IdMissing
                    ELSE IF HadId(call.id) THEN DuplicateId
                    ELSE MissingRequiredField

\* a call with a fresh id, a first name and an empty last name was refused
\* on a document that holds an experimenter
C2_Witness ==
    /\ IsNewExperimenter
    /\ ~ Empty(call.id) /\ ~ HadId(call.id)
    /\ ~ Empty(call.fields.firstName) /\ call.fields.lastName = ""
    /\ Len(prevExp) >= 1
    /\ exc = MissingRequiredField
    /\ node = prevNode

----------------------------------------------------------------------------
(* C3 *)

\* C3: on a document without experimenters, new_experimenter with a
\* non-empty id, firstName and lastName, no optional field and no position
\* succeeds, and tojson lists exactly one experimenter with exactly the keys
\* id, firstName and lastName and the values given.
C3_FirstExperimenterExported ==
    (/\ IsNewExperimenter
     /\ Len(prevExp) = 0
     /\ ~ Empty(call.id)
     /\ ~ Empty(call.fields.firstName) /\ ~ Empty(call.fields.lastName)
     /\ call.fields.email = None /\ call.fields.labName = None
     /\ call.fields.labAddress = None
     /\ call.pos = NoPos)
        => /\ exc = NoExc
           /\ tojson.experimenters =
                << [k \in {"id", "firstName", "lastName"} |->
                      IF k = "id" THEN call.id
                      ELSE IF k = "firstName" THEN call.fields.firstName
                      ELSE call.fields.lastName] >>

----------------------------------------------------------------------------
(* C4 *)

\* C4: a successful new_experimenter with a position below 0 makes the new
\* record the first experimenter, and with a position above the number of
\* experimenters the last one; the others keep their order.
C4_PositionClamped ==
    (IsNewExperimenter /\ exc = NoExc /\ call.pos # NoPos)
        => /\ call.pos[1] < 0 => NewAt(1)
           /\ call.pos[1] > Len(prevExp) => NewAt(Len(prevExp) + 1)

----------------------------------------------------------------------------
(* C5 *)

\* C5: delete_experimenter(byid=i) on a document with an experimenter i
\* succeeds and detaches exactly that record: one experimenter fewer, none
\* with id i, every other child in its place.
C5_DeleteById ==
    (IsDeleteExperimenter /\ call.id # None /\ call.pos = NoPos /\ HadId(call.id))
        => /\ exc = NoExc
           /\ Len(curExp) = Len(prevExp) - 1
           /\ ~ HasId(call.id)
           /\ \E i \in 1..Len(prevNode.children) :
                /\ prevNode.children[i].tag = "experimenter"
                /\ prevNode.children[i].id = call.id
                /\ node.children = RemoveAt(prevNode.children, i)

----------------------------------------------------------------------------
(* C6 *)

\* C6: delete_experimenter with an id no experimenter carries, or with a
\* position outside [0, count-1], fails with an RdmlError and leaves the
\* document as it was.
C6_UnmatchedSelector ==
    (/\ IsDeleteExperimenter
     /\ \/ call.id # None /\ call.pos = NoPos /\ ~ HadId(call.id)
        \/ /\ call.id = None /\ call.pos # NoPos
           /\ (call.pos[1] < 0 \/ call.pos[1] > Len(prevExp) - 1))
        => (exc.cls = "RdmlError" /\ node = prevNode)

----------------------------------------------------------------------------
(* C7 *)

\* C7: delete_experimenter with both an id and a position, or with neither,
\* raises the RdmlError about the selector ('Only an ... id or a position
\* can be provided' / 'Either an ... id or a position must be provided') and
\* leaves the document as it was, also when the id exists and the position
\* is in range.
C7_SelectorExclusivity ==
    IsDeleteExperimenter
        => /\ (call.id # None /\ call.pos # NoPos)
                => (exc = RdmlError("only id or position") /\ node = prevNode)
           /\ (call.id = None /\ call.pos = NoPos)
                => (exc = RdmlError("either id or position") /\ node = prevNode)
           /\ ((call.id # None) = (call.pos # NoPos))
                => (exc \in AmbiguousSelector /\ curExp = prevExp)

\* both selectors were given, the id existing and the position in range
C7_Witness ==
    /\ IsDeleteExperimenter
    /\ call.id # None /\ HadId(call.id)
    /\ call.pos # NoPos /\ call.pos[1] >= 0 /\ call.pos[1] <= Len(prevExp) - 1
    /\ exc \in AmbiguousSelector
    /\ node = prevNode

----------------------------------------------------------------------------
(* C8 *)

\* C8: a loadXMLString that is rejected for its root tag or its version
\* leaves the tree and the version as they were, and version() is a
\* supported version in every reachable state.
C8_RejectedLoadChangesNothing ==
    /\ (IsLoad /\ call.data.wellformed /\ exc # NoExc)
            => (node = prevNode /\ rdmlVersion = prevVersion)
    /\ version \in SupportedVersions

----------------------------------------------------------------------------
(* C9 *)

\* C9: a successful new_experimenter with a position p, 0 <= p <= count,
\* makes the new record the experimenter at index p, the others keeping
\* their order.
C9_RequestedPositionHonoured ==
    (/\ IsNewExperimenter /\ exc = NoExc /\ call.pos # NoPos
     /\ call.pos[1] >= 0 /\ call.pos[1] <= Len(prevExp))
        => NewAt(call.pos[1] + 1)

----------------------------------------------------------------------------
(* C10 *)

\* C10: in every state reached from a new document by new_experimenter and
\* delete_experimenter, every experimenter sits after dateMade in the child
\* list.
C10_ExperimentersAfterHeader ==
    \A i, j \in 1..Len(node.children) :
        (node.children[i].tag = "experimenter" /\ node.children[j].tag = "dateMade")
            => j < i

----------------------------------------------------------------------------
(* C11 *)

\* C11: in every state reached from a new document by new_experimenter and
\* delete_experimenter, failed calls included, the ids of the experimenters
\* are non-empty and pairwise distinct; a successful new_experimenter leaves
\* one experimenter more and a successful delete_experimenter one fewer.
C11_IdsUniqueUnderEditing ==
    /\ \A k \in 1..Len(curExp) : ~ Empty(curExp[k].id)
    /\ \A k, l \in 1..Len(curExp) : curExp[k].id = curExp[l].id => k = l
    /\ (IsNewExperimenter /\ exc = NoExc) => Len(curExp) = Len(prevExp) + 1
    /\ (IsDeleteExperimenter /\ exc = NoExc) => Len(curExp) = Len(prevExp) - 1

\* a second experimenter was added next to one with another id
C11_Witness ==
    /\ IsNewExperimenter
    /\ exc = NoExc
    /\ Len(prevExp) = 1
    /\ Len(curExp) = 2
    /\ curExp[1].id # curExp[2].id

====
